---------------------------- MODULE Spec2Model ----------------------------
(***************************************************************************)
(* Model of src/src/sistemas_actas.py: the window segmenter, the phrase    *)
(* classifier, the keyword tagger and the session state machine of         *)
(* procesar_audio_con_comandos, including the temporary file that          *)
(* transcribir_segmento writes, reads and removes for every window.        *)
(*                                                                         *)
(* Text is a sequence of one-character strings, so that Python's           *)
(* substring test (`cmd in texto`), lower(), strip() and capitalize() are  *)
(* computed character by character.  The character "o with acute accent"  *)
(* is written "o'" (upper case "O'").                                      *)
(*                                                                         *)
(* Time is counted in ticks of 1/sr seconds (one tick per sample): the     *)
(* float `inicio` of the source is inicio_ticks / sr.  np.arange(0, D, L)  *)
(* yields ceil(D / L) values 0, L, 2L, ...; with L = 3.0 and               *)
(* D = len(y) / sr these floats are exact multiples of 3.0 and D is        *)
(* compared against them exactly, so the tick arithmetic below is the      *)
(* arithmetic of the source.                                               *)
(***************************************************************************)
EXTENDS Integers, Sequences, FiniteSets, TLC

VARIABLES
  pc,              \* position of each run
  y,               \* the recordings: [len, habla]; habla[k] is what the
                   \* recogniser hears in window k, 0 until it is heard
  sr,              \* the sample rate of each run
  segmentos,       \* segmentos_finos of each run
  i,               \* index (1-based) of the window of the for loop
  estado_activo,   \* sessionActive
  en_acta,         \* minutesActive
  acta_segmentos,  \* the output list under construction
  result,          \* raw text returned by model.transcribe
  transcripcion,   \* value returned by transcribir_segmento
  tmp,             \* the file "temp_seg.wav" of the working directory
  ret,             \* value returned by procesar_audio_con_comandos
  error,           \* exception that left procesar_audio_con_comandos
  modo,            \* how the runs are started: "uno", "repetir", "concurrente"
  texto,           \* argument of detectar_comando (classifier harness)
  comando,         \* its result (classifier harness)
  matches,         \* result of buscar_keywords(texto) (tagger harness)
  mpc,             \* position of main
  llamadas,        \* the functions main has called, in order
  archivos,        \* the TXT and PDF files of OUTPUT_DIR
  excepcion,       \* exception raised inside the try block of main
  salida           \* how main ended

\* The variables of main and of the tagger harness.
mainvars == <<matches, mpc, llamadas, archivos, excepcion, salida>>

vars == <<pc, y, sr, segmentos, i, estado_activo, en_acta, acta_segmentos,
          result, transcripcion, tmp, ret, error, modo, texto, comando,
          mainvars>>

-----------------------------------------------------------------------------
(* Bounds of the model                                                     *)

MaxSegs == 4        \* windows of a recording, one run
MaxSegsRep == 4     \* windows of a recording, processed twice
MaxSegsConc == 2    \* windows of the recordings of two runs side by side
MaxSegsSeg == 5     \* full windows of a recording, segmenter specification
MaxFrags == 3       \* fragments of a transcript, classifier specification
MaxFragsKw == 3     \* fragments of a transcript, keyword specification

Runs == {1, 2}

-----------------------------------------------------------------------------
(* Constants of the program                                                *)

SEGMENTO_DURACION == 3

SR == 16000

\* The keyword list without "acta".
PALABRAS_CLAVE_sin_acta ==
  << <<"o","b","r","a">>,
     <<"r","i","e","s","g","o">>,
     <<"m","e","d","i","d","a">>,
     <<"r","e","u","n","i","o'","n">>,
     <<"p","r","o","y","e","c","t","o">>,
     <<"c","i","v","i","l">> >>

PALABRAS_CLAVE ==
  << <<"o","b","r","a">>,
     <<"r","i","e","s","g","o">>,
     <<"m","e","d","i","d","a">>,
     <<"a","c","t","a">>,
     <<"r","e","u","n","i","o'","n">>,
     <<"p","r","o","y","e","c","t","o">>,
     <<"c","i","v","i","l">> >>

COMANDOS_INICIO ==
  << <<"s","e"," ","i","n","i","c","i","a"," ","l","a"," ","s","e","s","i","o'","n">>,
     <<"i","n","i","c","i","a","m","o","s">>,
     <<"e","m","p","e","z","a","m","o","s">> >>

COMANDO_ACTIVAR ==
  << <<"e","n"," ","a","c","t","a">>,
     <<"d","e","n","t","r","o"," ","d","e"," ","a","c","t","a">> >>

COMANDO_DESACTIVAR ==
  << <<"f","u","e","r","a"," ","d","e"," ","a","c","t","a">>,
     <<"o","f","f"," ","a","c","t","a">> >>

-----------------------------------------------------------------------------
(* Python string operations                                                *)

Mayusculas ==
  <<"A","B","C","D","E","F","G","H","I","J","K","L","M","N","O","P","Q","R",
    "S","T","U","V","W","X","Y","Z","O'">>

Minusculas ==
  <<"a","b","c","d","e","f","g","h","i","j","k","l","m","n","o","p","q","r",
    "s","t","u","v","w","x","y","z","o'">>

Blancos == {" "}

\* The lower-case letter of every upper-case letter, and the converse.
LowerMap ==
  [c \in {Mayusculas[k] : k \in 1..Len(Mayusculas)} |->
     Minusculas[CHOOSE k \in 1..Len(Mayusculas) : Mayusculas[k] = c]]

UpperMap ==
  [c \in {Minusculas[k] : k \in 1..Len(Minusculas)} |->
     Mayusculas[CHOOSE k \in 1..Len(Minusculas) : Minusculas[k] = c]]

Lower1(c) == IF c \in DOMAIN LowerMap THEN LowerMap[c] ELSE c

Upper1(c) == IF c \in DOMAIN UpperMap THEN UpperMap[c] ELSE c

\* str.lower()
Lower(s) == IF s = <<>> THEN <<>> ELSE [k \in 1..Len(s) |-> Lower1(s[k])]

\* Surrounding blanks are kept.
StripNinguno(s) == s

\* str.strip()
Strip(s) ==
  LET idx == {k \in 1..Len(s) : s[k] \notin Blancos}
  IN IF idx = {} THEN <<>>
     ELSE SubSeq(s, CHOOSE a \in idx : \A b \in idx : a <= b,
                    CHOOSE a \in idx : \A b \in idx : a >= b)

\* str.capitalize(): first character upper case, the rest lower case
Capitalize(s) ==
  IF s = <<>> THEN <<>>
  ELSE [k \in 1..Len(s) |-> IF k = 1 THEN Upper1(s[k]) ELSE Lower1(s[k])]

\* `sub in s` for strings
In(sub, s) ==
  \E k \in 0..(Len(s) - Len(sub)) : \A j \in 1..Len(sub) : s[k + j] = sub[j]

\* any(cmd in texto for cmd in lista)
AnyIn(lista, s) == \E k \in 1..Len(lista) : In(lista[k], s)

-----------------------------------------------------------------------------
(* detectar_comando and buscar_keywords                                    *)

\* The activation phrases are tested before the start phrases.
detectar_comando_activar_primero(t) ==
  LET texto_lower == Lower(t)
  IN IF AnyIn(COMANDO_ACTIVAR, texto_lower) THEN "activar"
     ELSE IF AnyIn(COMANDOS_INICIO, texto_lower) THEN "inicio"
     ELSE IF AnyIn(COMANDO_DESACTIVAR, texto_lower) THEN "desactivar"
     ELSE "None"

detectar_comando(t) ==
  LET texto_lower == Lower(t)
  IN IF AnyIn(COMANDOS_INICIO, texto_lower) THEN "inicio"
     ELSE IF AnyIn(COMANDO_ACTIVAR, texto_lower) THEN "activar"
     ELSE IF AnyIn(COMANDO_DESACTIVAR, texto_lower) THEN "desactivar"
     ELSE "None"

\* The keyword list is scanned from its last element to its first.
buscar_keywords_al_reves(t) ==
  LET texto_lower == Lower(t)
      n == Len(PALABRAS_CLAVE)
  IN SelectSeq([k \in 1..n |-> PALABRAS_CLAVE[n + 1 - k]],
               LAMBDA kw : In(kw, texto_lower))

buscar_keywords(t) ==
  LET texto_lower == Lower(t)
  IN SelectSeq(PALABRAS_CLAVE, LAMBDA kw : In(kw, texto_lower))

-----------------------------------------------------------------------------
(* segmentar_audio_fino                                                    *)

MinOf(a, b) == IF a <= b THEN a ELSE b

\* The interval taken as closed: one value more at an exact multiple.
ArangeLenCerrado(stop, step) == (stop \div step) + 1

\* len(np.arange(0, stop, step)) = ceil(stop / step), for stop >= 0, step > 0
ArangeLen(stop, step) == (stop + step - 1) \div step

segmentar_audio_fino(yy, s) ==
  LET duracion_total == yy.len
      paso == SEGMENTO_DURACION * s
  IN [k \in 1..ArangeLen(duracion_total, paso) |->
        LET inicio == (k - 1) * paso
            fin == MinOf(inicio + paso, duracion_total)
        IN [inicio |-> inicio, fin |-> fin, duracion |-> fin - inicio,
            audio |-> <<inicio, fin>>]]

-----------------------------------------------------------------------------
(* The speech recogniser.  A recording is its number of samples and, for   *)
(* every window of SEGMENTO_DURACION seconds, what the recogniser hears in *)
(* it: an index into Transcripciones, the raw texts it can return.  The    *)
(* recogniser is a function of the samples: what it hears in a window is   *)
(* chosen the first time the window is transcribed and is the same ever    *)
(* after.                                                                  *)

Transcripciones ==
  << <<" ">>,
     <<" ","I","n","i","c","i","a","m","o","s">>,
     <<"e","n"," ","a","c","t","a">>,
     <<"f","u","e","r","a"," ","d","e"," ","a","c","t","a"," ","l","a"," ","o","b","r","a">>,
     <<"h","o","l","a">>,
     <<"r","i","e","s","g","o"," ","e","n"," ","l","a"," ","o","b","r","a">>,
     <<"i","n","i","c","i","a","m","o","s"," ","f","u","e","r","a"," ","d","e"," ","a","c","t","a">> >>

NoFile == [rec |-> 0, audio |-> <<0, 0>>]

\* The recording that run r processes: its own, or that of run 1 when run 2
\* processes the same recording again.
Grab(r) == IF modo = "repetir" THEN 1 ELSE r

\* The window of its recording that the samples of file f are.
Ventana(f) == (f.audio[1] \div (SEGMENTO_DURACION * sr[f.rec])) + 1

\* What model.transcribe can hear in the samples stored in file f.
Whisper(f) ==
  IF y[f.rec].habla[Ventana(f)] = 0
  THEN 1..Len(Transcripciones)
  ELSE {y[f.rec].habla[Ventana(f)]}

-----------------------------------------------------------------------------
(* The body of the for loop of procesar_audio_con_comandos, as a function  *)
(* of the local variables st = [estado_activo, en_acta, acta_segmentos].   *)

\* A start that picks up what the previous run left (module-level state).
EstadoSobrante ==
  [estado_activo |-> estado_activo[1], en_acta |-> en_acta[1],
   acta_segmentos |-> acta_segmentos[1]]

\* The minutes are on from the start.
EstadoInicialEnActa ==
  [estado_activo |-> FALSE, en_acta |-> TRUE, acta_segmentos |-> <<>>]

EstadoInicial ==
  [estado_activo |-> FALSE, en_acta |-> FALSE, acta_segmentos |-> <<>>]

\* A start phrase also switches the minutes off.
RamaInicioReinicia(st, seg, t) ==
  [st EXCEPT !.estado_activo = TRUE, !.en_acta = FALSE]

RamaInicio(st, seg, t) == [st EXCEPT !.estado_activo = TRUE]

\* Windows are accepted without waiting for the session to start.
EsperandoInicioNunca(st) == FALSE

EsperandoInicio(st) == ~st.estado_activo

\* The activation window is recorded like the deactivation window.
RamaActivarEmite(st, seg, t) ==
  [st EXCEPT !.en_acta = TRUE,
             !.acta_segmentos =
               Append(@, [inicio |-> seg.inicio, fin |-> seg.fin,
                          transcripcion |-> t,
                          matches |-> buscar_keywords(t),
                          tipo |-> "comando"])]

RamaActivar(st, seg, t) == [st EXCEPT !.en_acta = TRUE]

\* The marker is recorded only when the minutes were on.
RamaDesactivarSoloEnActa(st, seg, t) ==
  [st EXCEPT !.en_acta = FALSE,
             !.acta_segmentos =
               IF st.en_acta
               THEN Append(@, [inicio |-> seg.inicio, fin |-> seg.fin,
                               transcripcion |-> t,
                               matches |-> buscar_keywords(t),
                               tipo |-> "comando"])
               ELSE @]

\* The deactivation phrase also closes the session.
RamaDesactivarCierra(st, seg, t) ==
  [st EXCEPT !.estado_activo = FALSE,
             !.en_acta = FALSE,
             !.acta_segmentos =
               Append(@, [inicio |-> seg.inicio, fin |-> seg.fin,
                          transcripcion |-> t,
                          matches |-> buscar_keywords(t),
                          tipo |-> "comando"])]

RamaDesactivar(st, seg, t) ==
  [st EXCEPT !.en_acta = FALSE,
             !.acta_segmentos =
               Append(@, [inicio |-> seg.inicio, fin |-> seg.fin,
                          transcripcion |-> t,
                          matches |-> buscar_keywords(t),
                          tipo |-> "comando"])]

\* The entry is put in front of the list (insert(0, ...) for append).
RamaContenidoAlFrente(st, seg, t) ==
  IF st.en_acta /\ t # <<>>
  THEN [st EXCEPT !.acta_segmentos =
               <<[inicio |-> seg.inicio, fin |-> seg.fin,
                  transcripcion |-> Capitalize(t),
                  matches |-> buscar_keywords(t),
                  tipo |-> "contenido"]>> \o @]
  ELSE st

\* The en_acta test is dropped.
RamaContenidoSinFiltro(st, seg, t) ==
  [st EXCEPT !.acta_segmentos =
               Append(@, [inicio |-> seg.inicio, fin |-> seg.fin,
                          transcripcion |-> Capitalize(t),
                          matches |-> buscar_keywords(t),
                          tipo |-> "contenido"])]

\* The minutes are switched off after each recorded window.
RamaContenidoDesactiva(st, seg, t) ==
  IF st.en_acta /\ t # <<>>
  THEN [st EXCEPT !.en_acta = FALSE,
                  !.acta_segmentos =
               Append(@, [inicio |-> seg.inicio, fin |-> seg.fin,
                          transcripcion |-> Capitalize(t),
                          matches |-> buscar_keywords(t),
                          tipo |-> "contenido"])]
  ELSE st

RamaContenido(st, seg, t) ==
  IF st.en_acta /\ t # <<>>
  THEN [st EXCEPT !.acta_segmentos =
               Append(@, [inicio |-> seg.inicio, fin |-> seg.fin,
                          transcripcion |-> Capitalize(t),
                          matches |-> buscar_keywords(t),
                          tipo |-> "contenido"])]
  ELSE st

ProcesarSegmento(st, seg, t) ==
  IF t = <<>> THEN st
  ELSE LET cmd == detectar_comando(t)
       IN IF cmd = "inicio" THEN RamaInicio(st, seg, t)
          ELSE IF EsperandoInicio(st) THEN st
          ELSE IF cmd = "activar" THEN RamaActivar(st, seg, t)
          ELSE IF cmd = "desactivar" THEN RamaDesactivar(st, seg, t)
          ELSE RamaContenido(st, seg, t)

-----------------------------------------------------------------------------
(* Actions of a run r of procesar_audio_con_comandos                       *)

Local(r) ==
  [estado_activo |-> estado_activo[r], en_acta |-> en_acta[r],
   acta_segmentos |-> acta_segmentos[r]]

SetLocal(r, st) ==
  /\ estado_activo' = [estado_activo EXCEPT ![r] = st.estado_activo]
  /\ en_acta' = [en_acta EXCEPT ![r] = st.en_acta]
  /\ acta_segmentos' = [acta_segmentos EXCEPT ![r] = st.acta_segmentos]

\* The call of procesar_audio_con_comandos up to the for loop.  Run 2 starts
\* beside run 1 ("concurrente"), after run 1 has returned ("repetir"), or
\* never ("uno").
Iniciar(r) ==
  /\ pc[r] = "inicio"
  /\ \/ r = 1
     \/ modo = "concurrente"
     \/ modo = "repetir" /\ pc[1] = "returned"
  /\ segmentos' = [segmentos EXCEPT ![r] = segmentar_audio_fino(y[Grab(r)], sr[Grab(r)])]
  /\ SetLocal(r, EstadoInicial)
  /\ i' = [i EXCEPT ![r] = 1]
  /\ pc' = [pc EXCEPT ![r] = "bucle"]
  /\ UNCHANGED <<y, sr, result, transcripcion, tmp, ret, error, modo,
                 texto, comando, mainvars>>

\* Next window of the loop; transcribir_segmento writes its samples.
EscribirTemp(r) ==
  /\ pc[r] = "bucle"
  /\ i[r] <= Len(segmentos[r])
  /\ tmp' = [rec |-> Grab(r), audio |-> segmentos[r][i[r]].audio]
  /\ pc' = [pc EXCEPT ![r] = "transcribe"]
  /\ UNCHANGED <<y, sr, segmentos, i, estado_activo, en_acta, acta_segmentos,
                 result, transcripcion, ret, error, modo, texto,
                 comando, mainvars>>

\* model.transcribe reads the file: it returns a text, or raises (a failure
\* of the recogniser, or the file is not there); nothing in
\* procesar_audio_con_comandos catches the exception.
Transcribir(r) ==
  /\ pc[r] = "transcribe"
  /\ \/ /\ tmp # NoFile
        /\ \E h \in Whisper(tmp) :
             /\ y' = [y EXCEPT ![tmp.rec].habla[Ventana(tmp)] = h]
             /\ result' = [result EXCEPT ![r] = Transcripciones[h]]
        /\ pc' = [pc EXCEPT ![r] = "remove"]
        /\ UNCHANGED error
     \/ /\ error' = [error EXCEPT ![r] =
                       IF tmp = NoFile THEN "FileNotFound"
                       ELSE "TranscriptionFailure"]
        /\ pc' = [pc EXCEPT ![r] = "error"]
        /\ UNCHANGED <<y, result>>
  /\ UNCHANGED <<sr, segmentos, i, estado_activo, en_acta, acta_segmentos,
                 transcripcion, tmp, ret, modo, texto, comando, mainvars>>

\* os.remove(temp_path), then the text is stripped and lower-cased.
BorrarTemp(r) ==
  /\ pc[r] = "remove"
  /\ IF tmp = NoFile
     THEN /\ error' = [error EXCEPT ![r] = "FileNotFound"]
          /\ pc' = [pc EXCEPT ![r] = "error"]
          /\ UNCHANGED <<tmp, transcripcion>>
     ELSE /\ tmp' = NoFile
          /\ transcripcion' = [transcripcion EXCEPT ![r] = Lower(Strip(result[r]))]
          /\ pc' = [pc EXCEPT ![r] = "procesar"]
          /\ UNCHANGED error
  /\ UNCHANGED <<y, sr, segmentos, i, estado_activo, en_acta, acta_segmentos,
                 result, ret, modo, texto, comando, mainvars>>

\* The rest of the loop body, for the window just transcribed.
Procesar(r) ==
  /\ pc[r] = "procesar"
  /\ SetLocal(r, ProcesarSegmento(Local(r), segmentos[r][i[r]], transcripcion[r]))
  /\ i' = [i EXCEPT ![r] = i[r] + 1]
  /\ pc' = [pc EXCEPT ![r] = "bucle"]
  /\ UNCHANGED <<y, sr, segmentos, result, transcripcion, tmp, ret, error,
                 modo, texto, comando, mainvars>>

\* The loop is exhausted: return acta_segmentos.
Retornar(r) ==
  /\ pc[r] = "bucle"
  /\ i[r] > Len(segmentos[r])
  /\ ret' = [ret EXCEPT ![r] = acta_segmentos[r]]
  /\ pc' = [pc EXCEPT ![r] = "returned"]
  /\ UNCHANGED <<y, sr, segmentos, i, estado_activo, en_acta, acta_segmentos,
                 result, transcripcion, tmp, error, modo, texto,
                 comando, mainvars>>

Next ==
  \E r \in Runs :
    \/ Iniciar(r)
    \/ EscribirTemp(r)
    \/ Transcribir(r)
    \/ BorrarTemp(r)
    \/ Procesar(r)
    \/ Retornar(r)

-----------------------------------------------------------------------------
(* Initial states                                                          *)

\* Lengths of a recording of k windows at sample rate s: all windows full,
\* or the last one cut one second short.
Duraciones(k, s) ==
  IF k = 0 THEN {0}
  ELSE {k * SEGMENTO_DURACION * s, k * SEGMENTO_DURACION * s - s}

\* Recordings of at most maxk windows; hablas is what can be known of a
\* window when the recording is loaded ({0}: nothing).
Grabaciones(maxk, s, hablas) ==
  UNION {{[len |-> n, habla |-> h] :
            n \in Duraciones(k, s), h \in [1..k -> hablas]} : k \in 0..maxk}

\* No output file has been written.
SinArchivos ==
  [txt |-> [estado |-> "ausente", contenido |-> <<>>],
   pdf |-> [estado |-> "ausente", contenido |-> <<>>]]

InitRuns ==
  /\ segmentos = [r \in Runs |-> <<>>]
  /\ i = [r \in Runs |-> 0]
  /\ estado_activo = [r \in Runs |-> FALSE]
  /\ en_acta = [r \in Runs |-> FALSE]
  /\ acta_segmentos = [r \in Runs |-> <<>>]
  /\ result = [r \in Runs |-> <<>>]
  /\ transcripcion = [r \in Runs |-> <<>>]
  /\ tmp = NoFile
  /\ ret = [r \in Runs |-> <<>>]
  /\ error = [r \in Runs |-> "none"]
  /\ matches = <<>>
  /\ mpc = "off"
  /\ llamadas = <<>>
  /\ archivos = SinArchivos
  /\ excepcion = "none"
  /\ salida = "none"

\* One recording, processed by run 1.
Init ==
  /\ \E g \in Grabaciones(MaxSegs, SR, {0}) : y = [r \in Runs |-> g]
  /\ sr = [r \in Runs |-> SR]
  /\ pc = [r \in Runs |-> "inicio"]
  /\ modo = "uno"
  /\ InitRuns
  /\ texto = <<>>
  /\ comando = "none"

Spec == Init /\ [][Next]_vars

\* One recording, processed by run 1 and then once more by run 2.
InitRep ==
  /\ \E g \in Grabaciones(MaxSegsRep, SR, {0}) : y = [r \in Runs |-> g]
  /\ sr = [r \in Runs |-> SR]
  /\ pc = [r \in Runs |-> "inicio"]
  /\ modo = "repetir"
  /\ InitRuns
  /\ texto = <<>>
  /\ comando = "none"

SpecRep == InitRep /\ [][Next]_vars

\* Two different recordings, processed by two runs side by side in the same
\* working directory.
HablasConc == {2, 4, 5}

InitConc ==
  /\ y \in [Runs -> Grabaciones(MaxSegsConc, SR, HablasConc)]
  /\ y[1] # y[2]
  /\ sr = [r \in Runs |-> SR]
  /\ pc = [r \in Runs |-> "inicio"]
  /\ modo = "concurrente"
  /\ InitRuns
  /\ texto = <<>>
  /\ comando = "none"

SpecConc == InitConc /\ [][Next]_vars

-----------------------------------------------------------------------------
(* detectar_comando applied to transcripts built from fragments            *)

Fragmentos ==
  COMANDOS_INICIO \o COMANDO_ACTIVAR \o COMANDO_DESACTIVAR \o
  << <<"h","o","l","a">>,
     <<" ">>,
     <<"E","N"," ","A","C","T","A">>,
     <<"r","e">> >>

RECURSIVE Concats(_)
Concats(n) ==
  IF n = 0 THEN {<<>>}
  ELSE LET prev == Concats(n - 1)
       IN prev \cup {p \o Fragmentos[k] : p \in prev, k \in 1..Len(Fragmentos)}

InitClas ==
  /\ texto \in Concats(MaxFrags)
  /\ comando = "pendiente"
  /\ y = [r \in Runs |-> [len |-> 0, habla |-> <<>>]]
  /\ sr = [r \in Runs |-> SR]
  /\ pc = [r \in Runs |-> "off"]
  /\ modo = "uno"
  /\ InitRuns

Clasificar ==
  /\ comando = "pendiente"
  /\ comando' = detectar_comando(texto)
  /\ UNCHANGED <<pc, y, sr, segmentos, i, estado_activo, en_acta,
                 acta_segmentos, result, transcripcion, tmp, ret, error,
                 modo, texto, mainvars>>

SpecClas == InitClas /\ [][Clasificar]_vars

-----------------------------------------------------------------------------
(* segmentar_audio_fino applied to recordings of many lengths              *)

TasasSeg == {1, 2, SR}

LargosSeg(s) ==
  {k * SEGMENTO_DURACION * s + d :
     k \in 0..MaxSegsSeg, d \in {0, 1, s, SEGMENTO_DURACION * s - 1}}

InitSeg ==
  /\ \E s \in TasasSeg :
       /\ sr = [r \in Runs |-> s]
       /\ \E n \in LargosSeg(s) : y = [r \in Runs |-> [len |-> n, habla |-> <<>>]]
  /\ pc = [r \in Runs |-> IF r = 1 THEN "seg" ELSE "off"]
  /\ modo = "uno"
  /\ InitRuns
  /\ texto = <<>>
  /\ comando = "none"

Segmentar ==
  /\ pc[1] = "seg"
  /\ segmentos' = [segmentos EXCEPT ![1] = segmentar_audio_fino(y[1], sr[1])]
  /\ pc' = [pc EXCEPT ![1] = "segmentado"]
  /\ UNCHANGED <<y, sr, i, estado_activo, en_acta, acta_segmentos, result,
                 transcripcion, tmp, ret, error, modo, texto, comando, mainvars>>

SpecSeg == InitSeg /\ [][Segmentar]_vars

-----------------------------------------------------------------------------
(* buscar_keywords applied to transcripts built from fragments             *)

FragmentosKw ==
  PALABRAS_CLAVE \o
  << <<"h","o","l","a">>,
     <<" ">>,
     <<"O","B","R","A">>,
     <<"A","c","t","a">> >>

RECURSIVE ConcatsKw(_)
ConcatsKw(n) ==
  IF n = 0 THEN {<<>>}
  ELSE LET prev == ConcatsKw(n - 1)
       IN prev \cup {p \o FragmentosKw[k] : p \in prev, k \in 1..Len(FragmentosKw)}

InitKw ==
  /\ texto \in ConcatsKw(MaxFragsKw)
  /\ mpc = "etiquetar"
  /\ matches = <<>>
  /\ comando = "none"
  /\ y = [r \in Runs |-> [len |-> 0, habla |-> <<>>]]
  /\ sr = [r \in Runs |-> SR]
  /\ pc = [r \in Runs |-> "off"]
  /\ modo = "uno"
  /\ segmentos = [r \in Runs |-> <<>>]
  /\ i = [r \in Runs |-> 0]
  /\ estado_activo = [r \in Runs |-> FALSE]
  /\ en_acta = [r \in Runs |-> FALSE]
  /\ acta_segmentos = [r \in Runs |-> <<>>]
  /\ result = [r \in Runs |-> <<>>]
  /\ transcripcion = [r \in Runs |-> <<>>]
  /\ tmp = NoFile
  /\ ret = [r \in Runs |-> <<>>]
  /\ error = [r \in Runs |-> "none"]
  /\ llamadas = <<>>
  /\ archivos = SinArchivos
  /\ excepcion = "none"
  /\ salida = "none"

\* matches = buscar_keywords(texto)
Etiquetar ==
  /\ mpc = "etiquetar"
  /\ matches' = buscar_keywords(texto)
  /\ mpc' = "fin"
  /\ UNCHANGED <<pc, y, sr, segmentos, i, estado_activo, en_acta,
                 acta_segmentos, result, transcripcion, tmp, ret, error,
                 modo, texto, comando, llamadas, archivos, excepcion, salida>>

SpecKw == InitKw /\ [][Etiquetar]_vars

-----------------------------------------------------------------------------
(* main: load the audio, process it as run 1, render the TXT and the PDF.  *)

MaxSegsMain == 3    \* windows of the recording main processes

\* The exceptions the model raises; all are subclasses of Exception.
Excepciones ==
  {"FileNotFoundError", "DecodeError", "TranscriptionFailure", "FileNotFound",
   "RenderFailure"}

\* Only a missing file is caught (except FileNotFoundError).
CapturaSoloArchivo(e) == e = "FileNotFoundError"

\* `except Exception as e` of main
Captura(e) == e \in Excepciones

\* The handler removes what was written (a rollback).
TrasExcepcionLimpia(a) == SinArchivos

\* The files after the except block of main, which touches none.
TrasExcepcion(a) == a

\* Exception e is raised inside the try block of main, the files being a.
Lanzar(e, a) ==
  /\ excepcion' = e
  /\ archivos' = TrasExcepcion(a)
  /\ salida' = IF Captura(e) THEN "error" ELSE "escapa"
  /\ mpc' = "fin"

\* cargar_audio(args.archivo): the path does not exist, or librosa.load
\* raises, or the audio is loaded and main calls
\* procesar_audio_con_comandos, which run 1 executes.
CargarAudio ==
  /\ mpc = "cargar"
  /\ \/ /\ llamadas' = Append(llamadas, "cargar_audio")
        /\ Lanzar("FileNotFoundError", archivos)
        /\ UNCHANGED pc
     \/ /\ llamadas' = llamadas \o <<"cargar_audio", "librosa.load">>
        /\ Lanzar("DecodeError", archivos)
        /\ UNCHANGED pc
     \/ /\ llamadas' = llamadas \o <<"cargar_audio", "librosa.load",
                                     "procesar_audio_con_comandos">>
        /\ pc' = [pc EXCEPT ![1] = "inicio"]
        /\ mpc' = "procesando"
        /\ UNCHANGED <<archivos, excepcion, salida>>
  /\ UNCHANGED <<y, sr, segmentos, i, estado_activo, en_acta, acta_segmentos,
                 result, transcripcion, tmp, ret, error, modo, texto, comando,
                 matches>>

\* An exception left procesar_audio_con_comandos: the except block.
MainError ==
  /\ mpc = "procesando"
  /\ pc[1] = "error"
  /\ Lanzar(error[1], archivos)
  /\ UNCHANGED <<pc, y, sr, segmentos, i, estado_activo, en_acta,
                 acta_segmentos, result, transcripcion, tmp, ret, error, modo,
                 texto, comando, matches, llamadas>>

\* The emptiness test never succeeds.
SinContenidoNunca(acta) == FALSE

\* `not acta_segmentos`: true of the empty list only
SinContenido(acta) == acta = <<>>

\* `if not acta_segmentos`: the advisory is printed and main returns.
MainVacio ==
  /\ mpc = "procesando"
  /\ pc[1] = "returned"
  /\ SinContenido(ret[1])
  /\ salida' = "sin_contenido"
  /\ mpc' = "fin"
  /\ UNCHANGED <<pc, y, sr, segmentos, i, estado_activo, en_acta,
                 acta_segmentos, result, transcripcion, tmp, ret, error, modo,
                 texto, comando, matches, llamadas, archivos, excepcion>>

\* generar_acta_txt(acta_segmentos, nombre_base): the file is written, or an
\* exception is raised before the file is opened or while it is written.
GenerarTxt ==
  /\ mpc = "procesando"
  /\ pc[1] = "returned"
  /\ ~SinContenido(ret[1])
  /\ llamadas' = Append(llamadas, "generar_acta_txt")
  /\ \/ /\ archivos' = [archivos EXCEPT
                          !.txt = [estado |-> "escrito", contenido |-> ret[1]]]
        /\ mpc' = "render_pdf"
        /\ UNCHANGED <<excepcion, salida>>
     \/ \E e \in {"ausente", "parcial"} :
          Lanzar("RenderFailure",
                 [archivos EXCEPT !.txt = [estado |-> e, contenido |-> <<>>]])
  /\ UNCHANGED <<pc, y, sr, segmentos, i, estado_activo, en_acta,
                 acta_segmentos, result, transcripcion, tmp, ret, error, modo,
                 texto, comando, matches>>

\* generar_acta_pdf(acta_segmentos, nombre_base), then the closing message.
GenerarPdf ==
  /\ mpc = "render_pdf"
  /\ llamadas' = Append(llamadas, "generar_acta_pdf")
  /\ \/ /\ archivos' = [archivos EXCEPT
                          !.pdf = [estado |-> "escrito", contenido |-> ret[1]]]
        /\ salida' = "completado"
        /\ mpc' = "fin"
        /\ UNCHANGED excepcion
     \/ \E e \in {"ausente", "parcial"} :
          Lanzar("RenderFailure",
                 [archivos EXCEPT !.pdf = [estado |-> e, contenido |-> <<>>]])
  /\ UNCHANGED <<pc, y, sr, segmentos, i, estado_activo, en_acta,
                 acta_segmentos, result, transcripcion, tmp, ret, error, modo,
                 texto, comando, matches>>

NextMain ==
  \/ CargarAudio
  \/ MainError
  \/ MainVacio
  \/ GenerarTxt
  \/ GenerarPdf
  \/ Next

InitMain ==
  /\ \E g \in Grabaciones(MaxSegsMain, SR, {0}) : y = [r \in Runs |-> g]
  /\ sr = [r \in Runs |-> SR]
  /\ pc = [r \in Runs |-> "off"]
  /\ modo = "uno"
  /\ segmentos = [r \in Runs |-> <<>>]
  /\ i = [r \in Runs |-> 0]
  /\ estado_activo = [r \in Runs |-> FALSE]
  /\ en_acta = [r \in Runs |-> FALSE]
  /\ acta_segmentos = [r \in Runs |-> <<>>]
  /\ result = [r \in Runs |-> <<>>]
  /\ transcripcion = [r \in Runs |-> <<>>]
  /\ tmp = NoFile
  /\ ret = [r \in Runs |-> <<>>]
  /\ error = [r \in Runs |-> "none"]
  /\ texto = <<>>
  /\ comando = "none"
  /\ matches = <<>>
  /\ mpc = "cargar"
  /\ llamadas = <<>>
  /\ archivos = SinArchivos
  /\ excepcion = "none"
  /\ salida = "none"

SpecMain == InitMain /\ [][NextMain]_vars

-----------------------------------------------------------------------------
(* Properties                                                              *)

\* Run r executes the loop body (lines 90-134) for its current window.
Paso(r) == pc[r] = "procesar" /\ pc'[r] = "bucle"

\* The text transcribir_segmento returns for window k of recording r.
Oido(r, k) == Lower(Strip(Transcripciones[y[Grab(r)].habla[k]]))

NumTipo(s, tipo) == Cardinality({k \in DOMAIN s : s[k].tipo = tipo})

EsPrefijo(s, t) == Len(s) <= Len(t) /\ SubSeq(t, 1, Len(s)) = s

\* Phrase p occurs in t, letter case apart.
Ocurre(p, t) ==
  LET low == Lower(t)
  IN \E a \in 1..(Len(t) - Len(p) + 1) : SubSeq(low, a, a + Len(p) - 1) = p

\* The configured keywords that occur in t, as a set.
Claves(t) == {kw \in {PALABRAS_CLAVE[k] : k \in 1..Len(PALABRAS_CLAVE)} : Ocurre(kw, t)}

ElemSet(s) == {s[k] : k \in DOMAIN s}

\* C1: a Content entry is appended only by the loop body of a window that is
\* processed while estado_activo and en_acta are both true; the number of
\* Content entries never grows while either flag is false.
C1_ContentOnlyWhenBothActive ==
  [][\A r \in Runs :
       NumTipo(acta_segmentos'[r], "contenido") >
         NumTipo(acta_segmentos[r], "contenido")
       => Paso(r) /\ estado_activo[r] /\ en_acta[r]]_vars

C1_Witness ==
  \E r \in Runs :
    /\ pc[r] = "bucle" /\ estado_activo[r] /\ en_acta[r]
    /\ acta_segmentos[r] # <<>>
    /\ acta_segmentos[r][Len(acta_segmentos[r])].tipo = "contenido"

\* C2: a window classified "inicio" or "activar" never adds an entry to the
\* output, whatever the state of the machine.
C2_StartAndActivateNeverEmitted ==
  [][\A r \in Runs :
       Paso(r) /\ detectar_comando(transcripcion[r]) \in {"inicio", "activar"}
       => acta_segmentos'[r] = acta_segmentos[r]]_vars

C2_Witness ==
  \E r \in Runs :
    /\ pc[r] = "bucle" /\ i[r] = 3
    /\ detectar_comando(Oido(r, 1)) = "inicio"
    /\ detectar_comando(Oido(r, 2)) = "activar"
    /\ estado_activo[r] /\ en_acta[r]
    /\ acta_segmentos[r] = <<>>

\* C3: a window classified "desactivar" that is processed while
\* estado_activo is true appends exactly one 'comando' entry, tagged with the
\* keywords that occur in it, and leaves en_acta false, whether en_acta was
\* true or false before.
C3_DeactivateEmitsMarker ==
  [][\A r \in Runs :
       Paso(r) /\ estado_activo[r]
         /\ detectar_comando(transcripcion[r]) = "desactivar"
       => /\ Len(acta_segmentos'[r]) = Len(acta_segmentos[r]) + 1
          /\ EsPrefijo(acta_segmentos[r], acta_segmentos'[r])
          /\ LET e == acta_segmentos'[r][Len(acta_segmentos'[r])]
             IN /\ e.tipo = "comando"
                /\ e.transcripcion = transcripcion[r]
                /\ ElemSet(e.matches) = Claves(transcripcion[r])
                /\ e.inicio = segmentos[r][i[r]].inicio
                /\ e.fin = segmentos[r][i[r]].fin
          /\ ~en_acta'[r]
          /\ estado_activo'[r]]_vars

\* A deactivation window with a keyword, before any activation window.
C3_Witness ==
  \E r \in Runs :
    /\ pc[r] = "bucle" /\ i[r] = 3
    /\ detectar_comando(Oido(r, 1)) = "inicio"
    /\ detectar_comando(Oido(r, 2)) = "desactivar"
    /\ Len(acta_segmentos[r]) = 1
    /\ acta_segmentos[r][1].tipo = "comando"
    /\ acta_segmentos[r][1].matches = <<PALABRAS_CLAVE[1], PALABRAS_CLAVE[4]>>
    /\ ~en_acta[r]

\* C4: while estado_activo is false a window that is not "inicio" changes
\* neither the output nor the flags; the output is empty as long as
\* estado_activo is false and still empty right after the first "inicio"
\* window; a recording without an "inicio" window returns no entry.
C4_NothingBeforeSessionStart ==
  /\ [][\A r \in Runs :
          Paso(r) /\ ~estado_activo[r]
          => /\ acta_segmentos'[r] = <<>>
             /\ (detectar_comando(transcripcion[r]) # "inicio"
                 => /\ ~estado_activo'[r]
                    /\ en_acta'[r] = en_acta[r]
                    /\ acta_segmentos'[r] = acta_segmentos[r])]_vars
  /\ [](\A r \in Runs :
          /\ ~estado_activo[r] => acta_segmentos[r] = <<>>
          /\ (pc[r] = "returned"
               /\ \A k \in DOMAIN y[Grab(r)].habla :
                     detectar_comando(Oido(r, k)) # "inicio")
             => ret[r] = <<>>)

\* Scenario B: "hola", "en acta", "riesgo en la obra" and no start phrase.
C4_Witness ==
  \E r \in Runs :
    /\ pc[r] = "returned"
    /\ y[Grab(r)].habla = <<5, 3, 6>>
    /\ ~estado_activo[r]
    /\ ret[r] = <<>>

\* C5: the output is an order-preserving subsequence of the windows: a step
\* of a run keeps the entries it has and appends at most one, which carries
\* the start and end of the window being processed; starts are strictly
\* increasing; the returned list is the list built.
C5_OrderPreservingSubsequence ==
  /\ [][\A r \in Runs :
          pc[r] # "inicio"
          => /\ EsPrefijo(acta_segmentos[r], acta_segmentos'[r])
             /\ Len(acta_segmentos'[r]) <= Len(acta_segmentos[r]) + 1
             /\ (Len(acta_segmentos'[r]) = Len(acta_segmentos[r]) + 1
                 => /\ Paso(r)
                    /\ acta_segmentos'[r][Len(acta_segmentos'[r])].inicio
                         = segmentos[r][i[r]].inicio
                    /\ acta_segmentos'[r][Len(acta_segmentos'[r])].fin
                         = segmentos[r][i[r]].fin)]_vars
  /\ [](\A r \in Runs :
          /\ \A a, b \in DOMAIN acta_segmentos[r] :
                a < b => acta_segmentos[r][a].inicio < acta_segmentos[r][b].inicio
          /\ \A a \in DOMAIN acta_segmentos[r] :
                \E k \in 1..(i[r] - 1) :
                   /\ k \in DOMAIN segmentos[r]
                   /\ segmentos[r][k].inicio = acta_segmentos[r][a].inicio
                   /\ segmentos[r][k].fin = acta_segmentos[r][a].fin
          /\ pc[r] = "returned" => ret[r] = acta_segmentos[r])

C5_Witness ==
  \E r \in Runs :
    /\ pc[r] = "returned"
    /\ Len(ret[r]) = 2
    /\ ret[r][1].tipo = "contenido"
    /\ ret[r][2].tipo = "comando"
    /\ ret[r][1].inicio < ret[r][2].inicio

\* Some phrase of the list occurs in t.
OcurreAlguna(lista, t) == \E k \in 1..Len(lista) : Ocurre(lista[k], t)

\* C6: detectar_comando returns one kind by fixed priority: "inicio" when a
\* start phrase occurs, whatever else occurs and wherever; otherwise
\* "activar" when an activation phrase occurs; otherwise "desactivar" when a
\* deactivation phrase occurs; and None exactly when no phrase occurs.
C6_ClassifierPriority ==
  LET ini == OcurreAlguna(COMANDOS_INICIO, texto)
      act == OcurreAlguna(COMANDO_ACTIVAR, texto)
      des == OcurreAlguna(COMANDO_DESACTIVAR, texto)
  IN comando \notin {"pendiente", "none"}
     => /\ comando \in {"inicio", "activar", "desactivar", "None"}
        /\ ini => comando = "inicio"
        /\ (~ini /\ act) => comando = "activar"
        /\ (~ini /\ ~act /\ des) => comando = "desactivar"
        /\ comando = "None" <=> (~ini /\ ~act /\ ~des)

\* "fuera de acta" + "EN ACTA" + "iniciamos": the start phrase comes last.
C6_Witness ==
  /\ comando = "inicio"
  /\ texto = COMANDO_DESACTIVAR[1] \o Fragmentos[10] \o COMANDOS_INICIO[2]

RECURSIVE SumaDuracion(_)
SumaDuracion(segs) ==
  IF segs = <<>> THEN 0
  ELSE segs[Len(segs)].duracion + SumaDuracion(SubSeq(segs, 1, Len(segs) - 1))

\* C7: the windows of segmentar_audio_fino tile [0, D): the first starts at
\* 0, each starts where the previous one ends, every window has length L
\* but the last, which ends at D with 0 < length <= L, the lengths add up to
\* D, and D = 0 gives no window.  (D and L in ticks: D = len(y),
\* L = SEGMENTO_DURACION * sr.)
C7_WindowsTile ==
  \A r \in Runs :
    pc[r] \notin {"inicio", "seg", "off"}
    => LET segs == segmentos[r]
           n == Len(segs)
           D == y[Grab(r)].len
           L == SEGMENTO_DURACION * sr[Grab(r)]
       IN /\ D = 0 => n = 0
          /\ n > 0 => segs[1].inicio = 0 /\ segs[n].fin = D
          /\ \A k \in 2..n :
                /\ segs[k].inicio = segs[k - 1].fin
                /\ segs[k].inicio > segs[k - 1].inicio
          /\ \A k \in 1..n :
                /\ segs[k].duracion = segs[k].fin - segs[k].inicio
                /\ segs[k].duracion > 0
                /\ segs[k].duracion <= L
                /\ k < n => segs[k].duracion = L
          /\ SumaDuracion(segs) = D

\* A recording of exactly three windows: no fourth window of length zero.
C7_Witness ==
  /\ pc[1] = "segmentado"
  /\ sr[1] = SR
  /\ y[1].len = 3 * SEGMENTO_DURACION * SR
  /\ Len(segmentos[1]) = 3

\* C8: a second run over the same recording starts from estado_activo =
\* FALSE, en_acta = FALSE and an empty list, and returns the list the first
\* run returned.
C8_RerunSameOutput ==
  /\ [][\A r \in Runs :
          pc[r] = "inicio" /\ pc'[r] = "bucle"
          => /\ ~estado_activo'[r]
             /\ ~en_acta'[r]
             /\ acta_segmentos'[r] = <<>>]_vars
  /\ [](pc[1] = "returned" /\ pc[2] = "returned" => ret[1] = ret[2])

\* Both runs have returned an entry, and the first ended with the minutes on.
C8_Witness ==
  /\ pc[1] = "returned" /\ pc[2] = "returned"
  /\ estado_activo[1] /\ en_acta[1]
  /\ ret[1] # <<>>
  /\ ret[2] = ret[1]

\* C9: a failure of the recogniser for one window does not abort the run
\* (the window is skipped and the following windows are processed).
C9_FailedWindowIsSkipped ==
  \A r \in Runs : ~(pc[r] = "error" /\ error[r] = "TranscriptionFailure")

\* What run r returns when it runs alone over its recording.
RECURSIVE SoloDesde(_, _, _)
SoloDesde(r, st, k) ==
  LET segs == segmentar_audio_fino(y[Grab(r)], sr[Grab(r)])
  IN IF k > Len(segs) THEN st.acta_segmentos
     ELSE SoloDesde(r, ProcesarSegmento(st, segs[k], Oido(r, k)), k + 1)

Solo(r) == SoloDesde(r, EstadoInicial, 1)

\* C10: two runs side by side share nothing: in every interleaving a run
\* that returns, returns the list it returns when it runs alone over its
\* recording.
C10_RunsAreIndependent ==
  \A r \in Runs : pc[r] = "returned" => ret[r] = Solo(r)


\* The renderers main can call.
Renderizadores == {"generar_acta_txt", "generar_acta_pdf"}

\* C11: when processing returns an empty list of entries, main calls neither
\* renderer and writes no TXT or PDF file; it ends with the "no content"
\* advisory, and not through the except block (no exception is recorded).
C11_EmptyActaSkipsRendering ==
  (pc[1] = "returned" /\ ret[1] = <<>>) =>
    /\ ElemSet(llamadas) \cap Renderizadores = {}
    /\ archivos = SinArchivos
    /\ excepcion = "none"
    /\ salida \in {"none", "sin_contenido"}
    /\ (mpc = "fin" => salida = "sin_contenido")

\* main has ended with the advisory after a run that opened the session and
\* processed every window without accepting an entry.
C11_Witness ==
  /\ mpc = "fin"
  /\ pc[1] = "returned"
  /\ ret[1] = <<>>
  /\ salida = "sin_contenido"
  /\ estado_activo[1]
  /\ i[1] = MaxSegsMain


\* The exceptions raised while the audio is loaded or processed.
ErroresPrevios ==
  {"FileNotFoundError", "DecodeError", "TranscriptionFailure", "FileNotFound"}

\* C12: no exception escapes main: every exception raised while loading,
\* processing or rendering ends the run in the except block, which prints the
\* diagnostic; after an exception of loading or processing no renderer has
\* been called and no file written; a missing input path is reported before
\* anything is decoded, segmented or transcribed.
C12_ErrorsCaughtAtMain ==
  /\ salida # "escapa"
  /\ (excepcion # "none") <=> (salida = "error")
  /\ (salida = "error") => (mpc = "fin")
  /\ (excepcion \in ErroresPrevios) =>
       /\ ElemSet(llamadas) \cap Renderizadores = {}
       /\ archivos = SinArchivos
  /\ (excepcion = "FileNotFoundError") =>
       /\ llamadas = <<"cargar_audio">>
       /\ pc[1] = "off"
       /\ segmentos[1] = <<>>
       /\ \A k \in DOMAIN y[1].habla : y[1].habla[k] = 0

\* The recogniser failed on a window after an entry had been accepted, and
\* main ended in the except block.
C12_Witness ==
  /\ mpc = "fin"
  /\ salida = "error"
  /\ excepcion = "TranscriptionFailure"
  /\ acta_segmentos[1] # <<>>


\* C13: when generar_acta_pdf raises after generar_acta_txt has written its
\* file, the TXT file is still written, with every entry of the run, at the
\* end of main: the except block removes nothing.
C13_PdfFailureKeepsTxt ==
  (excepcion = "RenderFailure" /\ "generar_acta_pdf" \in ElemSet(llamadas)) =>
    archivos.txt = [estado |-> "escrito", contenido |-> ret[1]]

\* main has ended in the except block after the PDF renderer raised half way,
\* and the TXT file is there.
C13_Witness ==
  /\ mpc = "fin"
  /\ salida = "error"
  /\ excepcion = "RenderFailure"
  /\ archivos.pdf.estado = "parcial"
  /\ archivos.txt.estado = "escrito"
  /\ archivos.txt.contenido # <<>>

\* C14: whenever processing returns a non-empty list of entries, both
\* renderers are called by the end of main, whatever the outcome of the other:
\* a failure of generar_acta_txt does not keep generar_acta_pdf from running.
C14_RenderersIndependent ==
  (mpc = "fin" /\ pc[1] = "returned" /\ ret[1] # <<>>) =>
    Renderizadores \subseteq ElemSet(llamadas)


\* Window k of run r was heard as plain speech: not empty, no command.
EsHabla(r, k) ==
  /\ y[Grab(r)].habla[k] # 0
  /\ Oido(r, k) # <<>>
  /\ detectar_comando(Oido(r, k)) = "None"

\* Windows a..b of run r hold no deactivation phrase.
SinDesactivar(r, a, b) ==
  \A k \in a..b : detectar_comando(Oido(r, k)) # "desactivar"

\* C15: a window with a non-empty transcript and no command, processed while
\* estado_activo and en_acta are both true, appends exactly one 'contenido'
\* entry with the start and end of the window and the keywords of its
\* transcript, and leaves both flags as they were; hence every plain window
\* that follows an activation window of an open session, with no
\* deactivation window in between, has its entry in the output.
C15_ContentRecordedWhileActive ==
  /\ [][\A r \in Runs :
          Paso(r) /\ estado_activo[r] /\ en_acta[r]
            /\ transcripcion[r] # <<>>
            /\ detectar_comando(transcripcion[r]) = "None"
          => /\ Len(acta_segmentos'[r]) = Len(acta_segmentos[r]) + 1
             /\ EsPrefijo(acta_segmentos[r], acta_segmentos'[r])
             /\ LET e == acta_segmentos'[r][Len(acta_segmentos'[r])]
                IN /\ e.tipo = "contenido"
                   /\ e.inicio = segmentos[r][i[r]].inicio
                   /\ e.fin = segmentos[r][i[r]].fin
                   /\ ElemSet(e.matches) = Claves(transcripcion[r])
                   /\ Lower(e.transcripcion) = transcripcion[r]
             /\ estado_activo'[r] /\ en_acta'[r]]_vars
  /\ [](\A r \in Runs :
          pc[r] = "bucle" =>
            \A a \in 1..(i[r] - 1) : \A b \in 1..(i[r] - 1) :
              ( /\ a < b
                /\ estado_activo[r]
                /\ \E j \in 1..a : detectar_comando(Oido(r, j)) = "inicio"
                /\ detectar_comando(Oido(r, a)) = "activar"
                /\ SinDesactivar(r, a, b)
                /\ EsHabla(r, b) )
              => \E n \in DOMAIN acta_segmentos[r] :
                   /\ acta_segmentos[r][n].tipo = "contenido"
                   /\ acta_segmentos[r][n].inicio = segmentos[r][b].inicio
                   /\ acta_segmentos[r][n].fin = segmentos[r][b].fin)

\* Start, activation, then two plain windows, both recorded.
C15_Witness ==
  \E r \in Runs :
    /\ pc[r] = "bucle" /\ i[r] = 5
    /\ detectar_comando(Oido(r, 1)) = "inicio"
    /\ detectar_comando(Oido(r, 2)) = "activar"
    /\ EsHabla(r, 3) /\ EsHabla(r, 4)
    /\ estado_activo[r] /\ en_acta[r]
    /\ Len(acta_segmentos[r]) = 2
    /\ \A n \in 1..2 : acta_segmentos[r][n].tipo = "contenido"


\* The text the recogniser returned holds nothing but blanks.
EnBlanco(t) == \A k \in DOMAIN t : t[k] \in Blancos

\* C16: a window for which the recogniser returns no text (nothing, or
\* blanks only) has an empty transcript and is skipped in every state of the
\* machine: estado_activo, en_acta and acta_segmentos stay as they are, and
\* the loop goes on to the next window.
C16_EmptyTranscriptSkipped ==
  [][\A r \in Runs :
       Paso(r) /\ EnBlanco(result[r])
       => /\ transcripcion[r] = <<>>
          /\ estado_activo'[r] = estado_activo[r]
          /\ en_acta'[r] = en_acta[r]
          /\ acta_segmentos'[r] = acta_segmentos[r]
          /\ i'[r] = i[r] + 1
          /\ pc'[r] = "bucle"]_vars

\* A blank window was processed while the session was open and the minutes
\* on, and another one before the session opened.
C16_Witness ==
  \E r \in Runs :
    /\ pc[r] = "bucle" /\ i[r] = 5
    /\ EnBlanco(Transcripciones[y[Grab(r)].habla[1]])
    /\ detectar_comando(Oido(r, 2)) = "inicio"
    /\ detectar_comando(Oido(r, 3)) = "activar"
    /\ EnBlanco(Transcripciones[y[Grab(r)].habla[4]])
    /\ estado_activo[r] /\ en_acta[r]
    /\ acta_segmentos[r] = <<>>


\* The position of keyword kw in PALABRAS_CLAVE.
Posicion(kw) == CHOOSE k \in 1..Len(PALABRAS_CLAVE) : PALABRAS_CLAVE[k] = kw

\* C17: buscar_keywords returns exactly the configured keywords that occur
\* in the text (letter case apart), each once, in the order of PALABRAS_CLAVE
\* whatever their order in the text, and the empty list when none occurs.
C17_KeywordsInConfiguredOrder ==
  mpc = "fin" =>
    /\ ElemSet(matches) = Claves(texto)
    /\ \A a \in DOMAIN matches : \A b \in DOMAIN matches :
         a < b => Posicion(matches[a]) < Posicion(matches[b])
    /\ Len(matches) = Cardinality(Claves(texto))
    /\ (Claves(texto) = {} => matches = <<>>)

\* "actaOBRAacta": two keywords against the configured order, one of them
\* twice and one in upper case, are returned as obra, acta.
C17_Witness ==
  /\ mpc = "fin"
  /\ texto = PALABRAS_CLAVE[4] \o <<"O","B","R","A">> \o PALABRAS_CLAVE[4]
  /\ matches = <<PALABRAS_CLAVE[1], PALABRAS_CLAVE[4]>>


\* C18: a window classified "inicio" that is processed while estado_activo is
\* already true leaves estado_activo true, en_acta as it was (on stays on)
\* and acta_segmentos unchanged: the window is dropped.
C18_RepeatedStartChangesNothing ==
  [][\A r \in Runs :
       Paso(r) /\ estado_activo[r]
         /\ detectar_comando(transcripcion[r]) = "inicio"
       => /\ estado_activo'[r]
          /\ en_acta'[r] = en_acta[r]
          /\ acta_segmentos'[r] = acta_segmentos[r]]_vars

\* Start, activation, a second start: the minutes are still on and nothing
\* was recorded.
C18_Witness ==
  \E r \in Runs :
    /\ pc[r] = "bucle" /\ i[r] = 4
    /\ detectar_comando(Oido(r, 1)) = "inicio"
    /\ detectar_comando(Oido(r, 2)) = "activar"
    /\ detectar_comando(Oido(r, 3)) = "inicio"
    /\ estado_activo[r] /\ en_acta[r]
    /\ acta_segmentos[r] = <<>>

\* C19: in every reachable state en_acta implies estado_activo: the machine
\* is in (false, false), (true, false) or (true, true), and never in
\* (estado_activo false, en_acta true).
C19_MinutesImplySession ==
  \A r \in Runs : en_acta[r] => estado_activo[r]

\* The minutes are on in an open session, after they were off in that
\* session (a deactivation marker was recorded before the activation).
C19_Witness ==
  \E r \in Runs :
    /\ pc[r] = "bucle" /\ i[r] = 4
    /\ detectar_comando(Oido(r, 1)) = "inicio"
    /\ detectar_comando(Oido(r, 2)) = "desactivar"
    /\ detectar_comando(Oido(r, 3)) = "activar"
    /\ estado_activo[r] /\ en_acta[r]

\* C20: estado_activo never goes from true to false: once a start window has
\* set it, no later window of the run (deactivation and empty windows
\* included) resets it.
C20_SessionStaysOpen ==
  [][\A r \in Runs : estado_activo[r] => estado_activo'[r]]_vars

\* The session is still open after a deactivation window, an empty window
\* and a plain window that followed the start.
C20_Witness ==
  \E r \in Runs :
    /\ pc[r] = "bucle" /\ i[r] = 5
    /\ detectar_comando(Oido(r, 1)) = "inicio"
    /\ detectar_comando(Oido(r, 2)) = "desactivar"
    /\ EnBlanco(Transcripciones[y[Grab(r)].habla[3]])
    /\ EsHabla(r, 4)
    /\ estado_activo[r] /\ ~en_acta[r]


\* The keyword "acta".
Acta == <<"a","c","t","a">>

\* C21: with the configured lists, every 'comando' entry of the output has
\* the keyword "acta" in its matches, so its matches are never empty: the
\* entry holds a transcript with a deactivation phrase, and each
\* deactivation phrase is tagged with "acta" by buscar_keywords.
C21_MarkerCarriesActa ==
  /\ \A k \in 1..Len(COMANDO_DESACTIVAR) :
       Acta \in ElemSet(buscar_keywords(COMANDO_DESACTIVAR[k]))
  /\ \A r \in Runs : \A n \in DOMAIN acta_segmentos[r] :
       LET e == acta_segmentos[r][n]
       IN e.tipo = "comando" =>
            /\ detectar_comando(e.transcripcion) = "desactivar"
            /\ Acta \in ElemSet(e.matches)
            /\ e.matches # <<>>

\* A run has returned a list with a content entry followed by a marker
\* entry tagged obra, acta.
C21_Witness ==
  \E r \in Runs :
    /\ pc[r] = "returned"
    /\ Len(ret[r]) = 2
    /\ ret[r][1].tipo = "contenido"
    /\ ret[r][2].tipo = "comando"
    /\ ret[r][2].matches = <<<<"o","b","r","a">>, Acta>>

=============================================================================
